---- MODULE Spec2Model ----
(***************************************************************************)
(* Model of the shiritori bot of src/bot.py: the peewee tables (Words,     *)
(* BannedWords, Channels, Games, Users, Messages), the three in-process    *)
(* caches of class Iha, the channel and game operations, and the turn      *)
(* pipeline Iha.channel_message, cut into the steps that run between two   *)
(* of its await points.                                                    *)
(*                                                                         *)
(* Storage is the database the program opens by default                    *)
(* (--db sqlite:///data/db.sqlite, through playhouse connect() with no     *)
(* pragmas): SQLite does not enforce foreign keys in that configuration,   *)
(* so on_delete='CASCADE' is inert and delete_instance() removes one row;  *)
(* a BigAutoField is an INTEGER PRIMARY KEY, whose next value is the       *)
(* largest id in the table plus one.                                       *)
(*                                                                         *)
(* Handlers are coroutines of one event loop: a step of a handler is       *)
(* atomic, and any other handler or command may run while a handler is     *)
(* suspended at an await.  Calls to the chat platform always return.       *)
(***************************************************************************)
EXTENDS Integers, Sequences, FiniteSets, TLC

\* ---------------------------------------------------------------- bounds
MaxMsgs == 2
MaxCmds == 4

\* ------------------------------------------------------- program constants
WORD_SOURCE_LIST == 1
WORD_SOURCE_REJECTED == 2
WORD_SOURCE_GAME == 3
WORD_SOURCE_VETTED == 4

MESSAGE_STATE_UNKNOWN == 0
MESSAGE_STATE_OK == 1

EMOJI_NAY == "nay"
EMOJI_THUMB_DOWN == "thumb_down"
EMOJI_THINKING_FACE == "thinking_face"
EMOJI_RECYCLE == "recycle"

\* Reply lines of channel_message, without their interpolated values.
REPLY_REJECTED == "has previously been rejected"
REPLY_CHAIN == "must start with the letter"
REPLY_REPEAT == "was previously used by"

\* ------------------------------------------------------------ input sets
\* Discord channel and user ids, in the order the bot first meets them.
ChannelIds == <<"c1", "c2">>
\* The names a channel may have when it is added: the first is its name
\* unless it was renamed on the platform.
ChannelNames == <<"shiritori", "word-chain">>
UserIds == <<"u1", "u2">>

ape == <<"a", "p", "e">>
eye == <<"e", "y", "e">>
eve == <<"e", "v", "e">>
\* Message texts the handlers are fed with: sequences of characters.
Contents == {ape, eye, eve, ape \o <<" ">> \o eye}
\* Further texts for the parser: two words two spaces apart, and a token
\* with a digit in it.
ParseContents == Contents \cup {ape \o <<" ", " ">> \o eye, <<"e", "y", "3">>}

\* Words rows present before the bot starts (a word list loaded earlier, a
\* word marked rejected by the operator).
InitWords == (ape :> WORD_SOURCE_LIST) @@ (eve :> WORD_SOURCE_REJECTED)
\* The BannedWords table the bot is started with.
InitBanned == {eye, eve}

\* ----------------------------------------------------------------- state
VARIABLES
    words,          \* Words table: word -> source
    bannedWords,    \* BannedWords table
    channels,       \* Channels table: set of rows
    games,          \* Games table: sequence of rows, id = index
    users,          \* Users table: set of discord_user_id
    turns,          \* Messages table: sequence of rows, id = index
    channel_cache,  \* Iha._channel_cache: discord_id -> record or None
    word_cache,     \* Iha._word_cache: word -> source of the cached record
    user_cache,     \* Iha._user_cache: set of discord_user_id
    msgs,           \* the inbound messages and their handlers, in arrival order
    last,           \* what the last channel or game operation returned or raised
    ncmds           \* number of operations called so far

vars == <<words, bannedWords, channels, games, users, turns,
          channel_cache, word_cache, user_cache, msgs, last, ncmds>>

db == <<words, bannedWords, channels, games, users, turns>>

\* ------------------------------------------------------------- helpers
\* Python's None for a Channels record and for a Games reference.
None == [id |-> 0, discord_id |-> "", name |-> "", current_game |-> 0,
         game_running |-> FALSE]
NoGame == 0

\* What an operation returned or raised: the value of last.
Outcome(op, d, result, game) ==
    [op |-> op, channel |-> d, result |-> result, game |-> game]

Max(S) == CHOOSE x \in S : \A y \in S : y <= x

\* SELECT ... FROM channels WHERE discord_id = d (Channels.get)
ChannelRows(d) == {r \in channels : r.discord_id = d}
HasChannel(d) == ChannelRows(d) # {}
ChannelRow(d) == CHOOSE r \in ChannelRows(d) : TRUE

\* The id SQLite gives a new Channels row.
NextChannelId == IF channels = {} THEN 1 ELSE Max({r.id : r \in channels}) + 1

\* UPDATE channels SET ... WHERE id = rec.id (Model.save)
SaveChannel(rec) == {r \in channels : r.id # rec.id}
                    \cup {rec : r \in {r \in channels : r.id = rec.id}}

\* ------------------------------------------------------ Iha.parse_message
Letters == {"a", "b", "c", "d", "e", "f", "g", "h", "i", "j", "k", "l", "m",
            "n", "o", "p", "q", "r", "s", "t", "u", "v", "w", "x", "y", "z"}
Delimiters == {" ", "(", ":", "!", "?"}
Whitespace == {" ", "\t", "\n"}
UpperToLower == [A |-> "a", E |-> "e", P |-> "p", V |-> "v", Y |-> "y"]

\* str.lower()
lower(s) == [i \in 1..Len(s) |->
               IF s[i] \in DOMAIN UpperToLower THEN UpperToLower[s[i]] ELSE s[i]]

\* str.strip()
RECURSIVE lstrip(_)
lstrip(s) == IF s # <<>> /\ Head(s) \in Whitespace THEN lstrip(Tail(s)) ELSE s
RECURSIVE rstrip(_)
rstrip(s) == IF s # <<>> /\ s[Len(s)] \in Whitespace
             THEN rstrip(SubSeq(s, 1, Len(s) - 1)) ELSE s
strip(s) == rstrip(lstrip(s))

\* re.split('([ \(:!?])', s): the pieces between delimiters, each delimiter
\* kept as a piece of its own (the pattern has a capturing group).
RECURSIVE re_split(_, _, _)
re_split(s, piece, acc) ==
    IF s = <<>> THEN Append(acc, piece)
    ELSE IF Head(s) \in Delimiters
         THEN re_split(Tail(s), <<>>, acc \o <<piece, <<Head(s)>>>>)
         ELSE re_split(Tail(s), Append(piece, Head(s)), acc)

\* re.search(r'^[a-z]', element)
StartsWithLetter(element) == element # <<>> /\ element[1] \in Letters

\* the for loop of parse_message
RECURSIVE parse_loop(_, _)
parse_loop(elements, word) ==
    IF elements = <<>> THEN word
    ELSE IF Head(elements) = <<" ">> THEN parse_loop(Tail(elements), word)
    ELSE IF ~StartsWithLetter(Head(elements)) THEN word
    ELSE parse_loop(Tail(elements), Append(word, Head(elements)))

parse_message(content) == parse_loop(re_split(lower(content), <<>>, <<>>), <<>>)

\* -------------------------------------------------------- Iha.channel_get
\* The cache after channel_get(d): a miss loads the row, or None.
channel_get_cache(d) ==
    IF d \in DOMAIN channel_cache THEN channel_cache
    ELSE (d :> (IF HasChannel(d) THEN ChannelRow(d) ELSE None)) @@ channel_cache

channel_get(d) == channel_get_cache(d)[d]

\* -------------------------------------------------------- Iha.word_upsert
\* A word_upsert that sets the source of a word it finds in the table.
word_upsert_words_overwrite(word, source) ==
    LET w == strip(lower(word)) IN
    IF w \in DOMAIN word_cache THEN words ELSE (w :> source) @@ words

\* The Words table after word_upsert(word, source).
word_upsert_words(word, source) ==
    LET w == strip(lower(word)) IN
    IF w \in DOMAIN word_cache \/ w \in DOMAIN words THEN words
    ELSE (w :> source) @@ words

\* The word cache after word_upsert(word, source).
word_upsert_cache(word, source) ==
    LET w == strip(lower(word)) IN
    IF w \in DOMAIN word_cache THEN word_cache
    ELSE (w :> word_upsert_words(word, source)[w]) @@ word_cache

\* ----------------------------------------------------- the Messages queries
\* channel_message's "last valid message" query: the rows of the game in
\* state UNKNOWN or OK; get() takes the first by timestamp descending.
ValidTurns(T, game) ==
    {i \in 1..Len(T) : T[i].game = game
                       /\ T[i].state \in {MESSAGE_STATE_UNKNOWN, MESSAGE_STATE_OK}}

LastMessage(T, game) ==
    CHOOSE i \in ValidTurns(T, game) :
        \A j \in ValidTurns(T, game) : T[j].timestamp <= T[i].timestamp

\* A repeat query that finds nothing.
RepeatMessages_none(T, game, word) == {}

\* channel_message's repeat query.
RepeatMessages(T, game, word) ==
    {i \in 1..Len(T) : T[i].game = game /\ T[i].word = word}

\* ---------------------------------------------- Iha.channel_message, by step
\* The locals of one run of channel_message.  pc names the await the handler
\* is suspended at; "done" once it has returned.  word is the token and
\* word_rec the word of the Words record word_upsert returned for it;
\* chain_at is the number of Messages rows there were when the chain check
\* ran.
NewMessage(d, author, content, created_at) ==
    [channel |-> d, author |-> author, content |-> content,
     created_at |-> created_at, pc |-> "start", outcome |-> "",
     channel_rec |-> None, word |-> <<>>, word_rec |-> <<>>, source |-> 0,
     reject_word |-> FALSE, reply_messages |-> <<>>, message_state |-> -1,
     reactions |-> <<>>, replies |-> <<>>, turn |-> 0, chain_at |-> 0]

\* A handler that has returned: its locals are gone; what the chat platform
\* got from it (reactions, replies) and the row it returned remain.
Returned(m, outcome, turn) ==
    [NewMessage("", "", <<>>, 0) EXCEPT !.pc = "done", !.outcome = outcome,
                                        !.reactions = m.reactions,
                                        !.replies = m.replies,
                                        !.turn = turn]

\* A decision that forgets "if reject_word: return".
channel_message_decide_always(m) == [m EXCEPT !.pc = "commit"]

\* "if reject_word: return", else on to the insert
channel_message_decide(m) ==
    IF m.reject_word
    THEN [m EXCEPT !.pc = "return"]
    ELSE [m EXCEPT !.pc = "commit"]

\* A reply step that awaits message.reply whether or not there are lines.
channel_message_reply_always(m) ==
    [m EXCEPT !.replies = Append(@, m.reply_messages), !.pc = "reply"]

\* "if reply_messages: await message.reply(reply_str)"
channel_message_reply(m) ==
    IF m.reply_messages # <<>>
    THEN [m EXCEPT !.replies = Append(@, m.reply_messages), !.pc = "reply"]
    ELSE channel_message_decide(m)

\* the repeat check
channel_message_repeat(m) ==
    IF RepeatMessages(turns, m.channel_rec.current_game, m.word_rec) # {}
    THEN [m EXCEPT !.reactions = Append(@, EMOJI_RECYCLE),
                   !.reply_messages = Append(@, REPLY_REPEAT),
                   !.reject_word = TRUE,
                   !.pc = "recycle"]
    ELSE channel_message_reply(m)

\* A chain check that replies at once on a mismatch, skipping the repeat check.
channel_message_chain_short(m) ==
    LET game_rec == m.channel_rec.current_game
        n == [m EXCEPT !.chain_at = Len(turns)]
    IN  IF /\ ValidTurns(turns, game_rec) # {}
           /\ LET last_word == turns[LastMessage(turns, game_rec)].word
              IN  m.word[1] # last_word[Len(last_word)]
        THEN [n EXCEPT !.reactions = Append(@, EMOJI_NAY),
                       !.reply_messages = Append(@, REPLY_CHAIN),
                       !.reject_word = TRUE,
                       !.pc = "recycle"]
        ELSE channel_message_repeat(n)

\* the chain check against the last valid message of the game
channel_message_chain(m) ==
    LET game_rec == m.channel_rec.current_game
        n == [m EXCEPT !.chain_at = Len(turns)]
    IN  IF /\ ValidTurns(turns, game_rec) # {}
           /\ LET last_word == turns[LastMessage(turns, game_rec)].word
              IN  m.word[1] # last_word[Len(last_word)]
        THEN [n EXCEPT !.reactions = Append(@, EMOJI_NAY),
                       !.reply_messages = Append(@, REPLY_CHAIN),
                       !.reject_word = TRUE,
                       !.pc = "nay"]
        ELSE channel_message_repeat(n)

\* "Okay, so what sort of word is it?"
channel_message_state(m) ==
    IF m.source = WORD_SOURCE_GAME
    THEN [m EXCEPT !.reactions = Append(@, EMOJI_THINKING_FACE),
                   !.message_state = MESSAGE_STATE_UNKNOWN,
                   !.pc = "thinking"]
    ELSE channel_message_chain([m EXCEPT !.message_state = MESSAGE_STATE_OK])

\* "If it's a rejected word, we ignore it"
channel_message_rejected(m) ==
    IF m.source = WORD_SOURCE_REJECTED
    THEN [m EXCEPT !.reject_word = TRUE,
                   !.reply_messages = Append(@, REPLY_REJECTED),
                   !.reactions = Append(@, EMOJI_THUMB_DOWN),
                   !.pc = "thumb_down"]
    ELSE channel_message_state(m)

\* The code that runs when the await a handler is suspended at returns.
channel_message_continue(m) ==
    CASE m.pc = "thumb_down" -> channel_message_state(m)
      [] m.pc = "thinking"   -> channel_message_chain(m)
      [] m.pc = "nay"        -> channel_message_repeat(m)
      [] m.pc = "recycle"    -> channel_message_reply(m)
      [] m.pc = "reply"      -> channel_message_decide(m)

\* The Messages row channel_message creates for an accepted candidate.
NewTurn(m) ==
    [timestamp |-> m.created_at, content |-> m.content, word |-> m.word_rec,
     game |-> m.channel_rec.current_game, channel |-> m.channel_rec.id,
     state |-> m.message_state, user |-> m.author]

\* Iha.user_upsert: the Users table after it.
user_upsert_users(author) ==
    IF author \in user_cache THEN users ELSE users \cup {author}

\* The end of a handler step that leaves the i-th message with locals m: the
\* handler is suspended or has returned, or it runs user_upsert and
\* Messages.create and returns.
HandlerStep(ms, i, m) ==
    IF m.pc = "commit"
    THEN /\ users' = user_upsert_users(m.author)
         /\ user_cache' = user_cache \cup {m.author}
         /\ turns' = Append(turns, NewTurn(m))
         /\ msgs' = [ms EXCEPT ![i] = Returned(m, "accepted", Len(turns) + 1)]
    ELSE /\ msgs' = [ms EXCEPT ![i] = IF m.pc = "return"
                                      THEN Returned(m, "rejected", 0) ELSE m]
         /\ UNCHANGED <<users, user_cache, turns>>

InFlight == {i \in 1..Len(msgs) : msgs[i].pc # "done"}

\* Iha.on_message for a message that does not mention the bot: the handler
\* runs channel_message up to its first await, or to its return.
on_message(d, author, content) ==
    /\ Len(msgs) < MaxMsgs
    /\ LET i == Len(msgs) + 1
           m0 == NewMessage(d, author, content, i)
           channel_rec == channel_get(d)
           parsed == parse_message(content)
           ms == Append(msgs, m0)
       IN  /\ channel_cache' = channel_get_cache(d)
           /\ IF channel_rec = None \/ ~channel_rec.game_running
              THEN /\ msgs' = [ms EXCEPT ![i] = Returned(m0, "no_game", 0)]
                   /\ UNCHANGED <<words, word_cache, users, user_cache, turns>>
              ELSE IF parsed = <<>> \/ Len(parsed) > 1
              THEN /\ msgs' = [ms EXCEPT ![i] = Returned(m0, "no_word", 0)]
                   /\ UNCHANGED <<words, word_cache, users, user_cache, turns>>
              ELSE LET word == parsed[1]
                       w == strip(lower(word))
                       cache == word_upsert_cache(word, WORD_SOURCE_GAME)
                   IN  /\ words' = word_upsert_words(word, WORD_SOURCE_GAME)
                       /\ word_cache' = cache
                       /\ HandlerStep(ms, i, channel_message_rejected(
                              [m0 EXCEPT !.channel_rec = channel_rec,
                                         !.word = word,
                                         !.word_rec = w,
                                         !.source = cache[w]]))
    /\ UNCHANGED <<bannedWords, channels, games, last, ncmds>>

\* The await a handler is suspended at returns and the handler runs on.
resume(i) ==
    /\ i \in InFlight
    /\ HandlerStep(msgs, i, channel_message_continue(msgs[i]))
    /\ UNCHANGED <<words, bannedWords, channels, games, channel_cache,
                   word_cache, last, ncmds>>

\* ------------------------------------------------------ channel operations
\* A get_or_create that always makes a new row.
get_or_create_new(d) ==
    [id |-> NextChannelId, discord_id |-> d, name |-> "",
     current_game |-> NoGame, game_running |-> FALSE]

\* Channels.get_or_create(discord_id=d): the row, or a new one with the
\* defaults of the model.
get_or_create(d) ==
    IF HasChannel(d) THEN ChannelRow(d)
    ELSE [id |-> NextChannelId, discord_id |-> d, name |-> "",
          current_game |-> NoGame, game_running |-> FALSE]

\* Iha.channel_add, for a channel that has the given name
channel_add(d, name) ==
    /\ ncmds < MaxCmds
    /\ LET chan_rec == [get_or_create(d) EXCEPT !.name = name]
       IN  /\ channels' = (channels \ ChannelRows(d)) \cup {chan_rec}
           /\ channel_cache' = (d :> chan_rec) @@ channel_cache
           /\ last' = Outcome("add", d, "ok", NoGame)
    /\ ncmds' = ncmds + 1
    /\ UNCHANGED <<words, bannedWords, games, users, turns, word_cache,
                   user_cache, msgs>>

\* Iha.channel_remove
channel_remove(d) ==
    /\ ncmds < MaxCmds
    /\ channel_cache' = (d :> None) @@ channel_cache
    /\ IF HasChannel(d)
       THEN /\ channels' = channels \ {ChannelRow(d)}
            /\ last' = Outcome("remove", d, "true", NoGame)
       ELSE /\ channels' = channels
            /\ last' = Outcome("remove", d, "false", NoGame)
    /\ ncmds' = ncmds + 1
    /\ UNCHANGED <<words, bannedWords, games, users, turns, word_cache,
                   user_cache, msgs>>

\* Iha.game_start
game_start(d) ==
    /\ ncmds < MaxCmds
    /\ LET channel_rec == channel_get(d) IN
       IF channel_rec = None
       THEN /\ channel_cache' = channel_get_cache(d)
            /\ last' = Outcome("start", d, "Not a game channel", NoGame)
            /\ UNCHANGED <<channels, games>>
       ELSE IF channel_rec.game_running
       THEN /\ channel_cache' = channel_get_cache(d)
            /\ last' = Outcome("start", d, "Game is already running", NoGame)
            /\ UNCHANGED <<channels, games>>
       ELSE LET game == Len(games) + 1
                started == [channel_rec EXCEPT !.current_game = game,
                                               !.game_running = TRUE]
            IN  /\ games' = Append(games, [channel |-> channel_rec.id])
                /\ channel_cache' = (d :> started) @@ channel_cache
                /\ channels' = SaveChannel(started)
                /\ last' = Outcome("start", d, "ok", game)
    /\ ncmds' = ncmds + 1
    /\ UNCHANGED <<words, bannedWords, users, turns, word_cache, user_cache, msgs>>

\* An end that clears the flag and leaves the reference.
Ended_keeps_game(channel_rec) == [channel_rec EXCEPT !.game_running = FALSE]

\* The record game_ending saves: current_game and game_running cleared.
Ended(channel_rec) ==
    [channel_rec EXCEPT !.current_game = NoGame, !.game_running = FALSE]

\* A game_ending without its "if not channel_rec.game_running" check.
game_ending_unchecked(d) ==
    /\ ncmds < MaxCmds
    /\ channel_cache' = channel_get_cache(d)
    /\ IF channel_get(d) = None
       THEN /\ last' = Outcome("end", d, "Not a game channel", NoGame)
            /\ UNCHANGED channels
       ELSE LET channel_rec == ChannelRow(d) IN
            /\ channels' = SaveChannel(Ended(channel_rec))
            /\ last' = Outcome("end", d, "ok", channel_rec.current_game)
    /\ ncmds' = ncmds + 1
    /\ UNCHANGED <<words, bannedWords, games, users, turns, word_cache,
                   user_cache, msgs>>

\* Iha.game_ending
game_ending(d) ==
    /\ ncmds < MaxCmds
    /\ channel_cache' = channel_get_cache(d)
    /\ IF channel_get(d) = None
       THEN /\ last' = Outcome("end", d, "Not a game channel", NoGame)
            /\ UNCHANGED channels
       ELSE LET channel_rec == ChannelRow(d) IN
            IF ~channel_rec.game_running
            THEN /\ last' = Outcome("end", d, "No game is currently running", NoGame)
                 /\ UNCHANGED channels
            ELSE /\ channels' = SaveChannel(Ended(channel_rec))
                 /\ last' = Outcome("end", d, "ok", channel_rec.current_game)
    /\ ncmds' = ncmds + 1
    /\ UNCHANGED <<words, bannedWords, games, users, turns, word_cache,
                   user_cache, msgs>>

\* ---------------------------------------------------------- specification
Init ==
    /\ words = InitWords
    /\ bannedWords = InitBanned
    /\ channels = {}
    /\ games = <<>>
    /\ users = {}
    /\ turns = <<>>
    /\ channel_cache = <<>>
    /\ word_cache = <<>>
    /\ user_cache = {}
    /\ msgs = <<>>
    /\ last = Outcome("init", "", "", NoGame)
    /\ ncmds = 0

\* Ids are opaque to the bot, so the channels and the users are named in the
\* order of their first appearance: the ones met so far, and the next one.
Named(ids, met) ==
    {ids[k] : k \in {k \in 1..Len(ids) : \A j \in 1..(k - 1) : ids[j] \in met}}
Channel == Named(ChannelIds, DOMAIN channel_cache)
Author == Named(UserIds, user_cache \cup {msgs[i].author : i \in InFlight})

Next ==
    \/ \E d \in Channel, author \in Author, content \in Contents :
           on_message(d, author, content)
    \/ \E i \in 1..MaxMsgs : resume(i)
    \/ \E d \in Channel : channel_add(d, ChannelNames[1])
    \/ \E d \in Channel : channel_remove(d)
    \/ \E d \in Channel : game_start(d)
    \/ \E d \in Channel : game_ending(d)

Spec == Init /\ [][Next]_vars

\* The registry operations alone, for channels that are renamed on the
\* platform between two registrations.
NextRegistry ==
    \/ \E d \in Channel, k \in DOMAIN ChannelNames :
           channel_add(d, ChannelNames[k])
    \/ \E d \in Channel : channel_remove(d)
    \/ \E d \in Channel : game_start(d)
    \/ \E d \in Channel : game_ending(d)

SpecRegistry == Init /\ [][NextRegistry]_vars

\* ------------------------------------------------------ Iha.channel_sync
\* Iha.channel_sync for a channel whose history after the newest stored
\* message is the given sequence of texts.  Channels.get(True) looks up the
\* row of primary key 1, or the first row, depending on the peewee version,
\* and raises DoesNotExist when there is none; word_upsert is called without
\* its source argument and raises TypeError at the first message that parses
\* to a non-empty list, before any row is written.
channel_sync(d, history) ==
    /\ ncmds < MaxCmds
    /\ \E result \in {"DoesNotExist", "TypeError", "ok"} :
          /\ (result = "DoesNotExist")
                 => (channels = {} \/ \A r \in channels : r.id # 1)
          /\ (result # "DoesNotExist")
                 => /\ channels # {}
                    /\ (result = "TypeError")
                           <=> \E k \in 1..Len(history) :
                                   parse_message(history[k]) # <<>>
          /\ last' = Outcome("sync", d, result, NoGame)
    /\ ncmds' = ncmds + 1
    /\ UNCHANGED <<words, bannedWords, channels, games, users, turns,
                   channel_cache, word_cache, user_cache, msgs>>

\* ---------------------------------------------------- Iha.command_execute
\* Iha.channel_info: whether the channel has a row (the count of messages it
\* reports is left out).
channel_info(d) ==
    /\ ncmds < MaxCmds
    /\ last' = Outcome("info", d, IF HasChannel(d) THEN "registered"
                                  ELSE "not registered", NoGame)
    /\ ncmds' = ncmds + 1
    /\ UNCHANGED <<words, bannedWords, channels, games, users, turns,
                   channel_cache, word_cache, user_cache, msgs>>

\* Iha.command_help
command_help(d) ==
    /\ ncmds < MaxCmds
    /\ last' = Outcome("help", d, "ok", NoGame)
    /\ ncmds' = ncmds + 1
    /\ UNCHANGED <<words, bannedWords, channels, games, users, turns,
                   channel_cache, word_cache, user_cache, msgs>>

\* self.game_end(message.channel): Iha has no attribute of that name (the
\* method is game_ending), so the call raises AttributeError.
game_end(d) ==
    /\ ncmds < MaxCmds
    /\ last' = Outcome("end", d, "AttributeError", NoGame)
    /\ ncmds' = ncmds + 1
    /\ UNCHANGED <<words, bannedWords, channels, games, users, turns,
                   channel_cache, word_cache, user_cache, msgs>>

\* The commands of IHA_COMMANDS.
Commands == {"help", "add", "info", "remove", "sync", "start", "end"}

\* Histories channel_sync is fed with.
Histories == {<<>>, <<ape>>, <<ape \o <<" ">> \o eye>>, <<<<"?">>, eye>>}

\* Iha.command_execute for a message that mentions the bot in channel d, with
\* the command argv: the branch of the command, then the message sent.
command_execute(d, argv, history) ==
    \/ argv = "help" /\ command_help(d)
    \/ argv = "add" /\ channel_add(d, ChannelNames[1])
    \/ argv = "sync" /\ channel_sync(d, history)
    \/ argv = "info" /\ channel_info(d)
    \/ argv = "remove" /\ channel_remove(d)
    \/ argv = "start" /\ game_start(d)
    \/ argv = "end" /\ game_end(d)

\* What command_execute sends to the channel after the command whose outcome
\* is o: the text of the branch, or "Internal Error" with the exception.
Sent(o) ==
    CASE o.op = "help" -> <<"IHA_COMMANDS">>
      [] o.op = "add" -> <<"Added.">>
      [] o.op = "sync" /\ o.result = "ok" -> <<"Syncronized">>
      [] o.op = "info" /\ o.result = "registered" -> <<"is registered.">>
      [] o.op = "info" /\ o.result # "registered"
             -> <<"is not a registered channel.">>
      [] o.op = "remove" -> <<"removed.">>
      [] o.op = "start" /\ o.result = "ok" -> <<"game started.">>
      [] o.op = "end" /\ o.result = "ok" -> <<"game ended.">>
      [] OTHER -> <<"Internal Error", o.result>>

\* The bot as it is driven from the chat: messages that mention it are
\* commands, the others are game play.
NextCommands ==
    \/ \E d \in Channel, author \in Author, content \in Contents :
           on_message(d, author, content)
    \/ \E i \in 1..MaxMsgs : resume(i)
    \/ \E d \in Channel, argv \in Commands, history \in Histories :
           command_execute(d, argv, history)

SpecCommands == Init /\ [][NextCommands]_vars

\* -------------------------------------------------------------- do_load
\* A batch is closed once it holds more than this many lines.
LOAD_BATCH == 1000

\* Word files do_load is fed with: sequences of lines.
Files == {<<eye>>, <<ape, eye>>, <<eye, eye>>, <<eve>>}

\* Words.insert_many(batch).execute(): one INSERT statement, which fails as a
\* whole with IntegrityError when a word of the batch is in the table already
\* or occurs twice in the batch (Words.word is unique).
insert_many(W, batch) ==
    LET stripped == [k \in 1..Len(batch) |-> strip(batch[k])]
    IN  IF \/ \E k \in 1..Len(batch) : stripped[k] \in DOMAIN W
           \/ \E j, k \in 1..Len(batch) : j # k /\ stripped[j] = stripped[k]
        THEN [words |-> W, result |-> "IntegrityError"]
        ELSE [words |-> [w \in {stripped[k] : k \in 1..Len(batch)}
                            |-> WORD_SOURCE_LIST] @@ W,
              result |-> "ok"]

\* The loop of do_load over the lines left to read: batch after batch, each
\* committed on its own, until the file ends or an insert raises.
RECURSIVE load_loop(_, _)
load_loop(lines, W) ==
    IF lines = <<>> THEN [words |-> W, result |-> "ok"]
    ELSE LET n == IF Len(lines) > LOAD_BATCH THEN LOAD_BATCH + 1 ELSE Len(lines)
             r == insert_many(W, SubSeq(lines, 1, n))
         IN  IF r.result # "ok" THEN r
             ELSE load_loop(SubSeq(lines, n + 1, Len(lines)), r.words)

\* do_load: the load command of the program, run on the database of the bot.
do_load(file) ==
    /\ ncmds < MaxCmds
    /\ words' = load_loop(file, words).words
    /\ last' = Outcome("load", "", load_loop(file, words).result, NoGame)
    /\ ncmds' = ncmds + 1
    /\ UNCHANGED <<bannedWords, channels, games, users, turns, channel_cache,
                   word_cache, user_cache, msgs>>

\* Game play, with word files loaded while the bot runs.
NextLoad ==
    \/ \E d \in Channel, author \in Author, content \in Contents :
           on_message(d, author, content)
    \/ \E i \in 1..MaxMsgs : resume(i)
    \/ \E d \in Channel : channel_add(d, ChannelNames[1])
    \/ \E d \in Channel : game_start(d)
    \/ \E file \in Files : do_load(file)

SpecLoad == Init /\ [][NextLoad]_vars

\* Game play alone, on the further texts.
NextParse ==
    \/ \E d \in Channel, author \in Author, content \in ParseContents :
           on_message(d, author, content)
    \/ \E i \in 1..MaxMsgs : resume(i)
    \/ \E d \in Channel : channel_add(d, ChannelNames[1])
    \/ \E d \in Channel : game_start(d)

SpecParse == Init /\ [][NextParse]_vars

\* ================================================================ claims
\* Storage's view of a channel: registered, and in state RUNNING or IDLE.
Running(d) == HasChannel(d) /\ ChannelRow(d).game_running
Idle(d) == HasChannel(d) /\ ~ChannelRow(d).game_running

\* The handler of message i takes the step.
Steps(i) == i > Len(msgs) \/ msgs'[i] # msgs[i]

\* C1 (no-repeat invariant): no word is referenced by two distinct persisted
\* Turns of the same Game.
C1_NoRepeat ==
    \A i, j \in 1..Len(turns) :
        (i # j /\ turns[i].game # NoGame /\ turns[i].game = turns[j].game)
            => turns[i].word # turns[j].word

\* C1 witness: a candidate whose word the game already holds was answered
\* with the repeat line, and the game still has that word once.
C1_Witness ==
    \E i \in 1..Len(msgs) :
        /\ msgs[i].pc = "done"
        /\ Len(msgs[i].replies) = 1
        /\ \E k \in 1..Len(msgs[i].replies[1]) : msgs[i].replies[1][k] = REPLY_REPEAT
        /\ turns # <<>>

\* C2 (chain invariant): in every Game, of two Turns in state OK or UNKNOWN
\* that are consecutive in timestamp order, the later one's word starts with
\* the last character of the earlier one's word.
C2_ChainInvariant ==
    \A i, j \in 1..Len(turns) :
        ( /\ turns[i].game = turns[j].game
          /\ {turns[i].state, turns[j].state}
                 \subseteq {MESSAGE_STATE_UNKNOWN, MESSAGE_STATE_OK}
          /\ turns[i].timestamp < turns[j].timestamp
          /\ ~\E k \in ValidTurns(turns, turns[i].game) :
                 /\ turns[i].timestamp < turns[k].timestamp
                 /\ turns[k].timestamp < turns[j].timestamp )
        => turns[j].word[1] = turns[i].word[Len(turns[i].word)]

\* C3 (state invariant): every Channel, stored or cached, has game_running
\* true exactly when its current_game is set.
C3_StateInvariant ==
    /\ \A r \in channels : r.game_running <=> (r.current_game # NoGame)
    /\ \A d \in DOMAIN channel_cache :
           channel_cache[d].game_running <=> (channel_cache[d].current_game # NoGame)

\* C3 witness: a game was started and ended: the stored channel is idle with
\* no current game, while the cached record still names the ended game.
C3_Witness ==
    \E r \in channels :
        /\ ~r.game_running
        /\ r.current_game = NoGame
        /\ \E g \in 1..Len(games) : games[g].channel = r.id
        /\ r.discord_id \in DOMAIN channel_cache
        /\ channel_cache[r.discord_id].current_game # NoGame

\* C4 (gate): a message handled while its channel is not registered, or is
\* registered with game_running false, is ignored: the handler returns at
\* once with no reaction and no reply, and no Turn is written.
C4_Gate ==
    [][\A d \in Channel, author \in Author, content \in Contents :
          (on_message(d, author, content) /\ ~Running(d))
              => /\ msgs'[Len(msgs')].pc = "done"
                 /\ msgs'[Len(msgs')].reactions = <<>>
                 /\ msgs'[Len(msgs')].replies = <<>>
                 /\ turns' = turns]_vars

\* C5 (start exactly when idle): start(channel) succeeds exactly when the
\* channel is registered and no game is running on it.
C5_StartWhenIdle ==
    [][\A d \in Channel :
          game_start(d) => ((last'.result = "ok") <=> Idle(d))]_vars

\* C6 (effect of start): start on a registered idle channel appends one Game
\* owned by the channel, makes it the channel's current game and returns it;
\* any other start leaves the Games and the Channels as they were.
C6_StartEffect ==
    [][\A d \in Channel :
          game_start(d) =>
              IF Idle(d)
              THEN /\ games' = Append(games, [channel |-> ChannelRow(d).id])
                   /\ channels' = (channels \ {ChannelRow(d)})
                          \cup {[ChannelRow(d) EXCEPT !.current_game = Len(games) + 1,
                                                      !.game_running = TRUE]}
                   /\ last' = Outcome("start", d, "ok", Len(games) + 1)
              ELSE /\ games' = games
                   /\ channels' = channels
                   /\ last'.result # "ok"]_vars

\* C7 (effect of end): end on a running channel returns the game that was
\* current and clears current_game and game_running, touching no Game and no
\* Turn; end on an idle channel fails as not running and end on an
\* unregistered channel fails as not registered, both changing no table.
C7_EndEffect ==
    [][\A d \in Channel :
          game_ending(d) =>
              IF Running(d)
              THEN /\ last' = Outcome("end", d, "ok", ChannelRow(d).current_game)
                   /\ ChannelRow(d).current_game \in 1..Len(games)
                   /\ channels' = (channels \ {ChannelRow(d)})
                          \cup {[ChannelRow(d) EXCEPT !.current_game = NoGame,
                                                      !.game_running = FALSE]}
                   /\ UNCHANGED <<games, turns, words, users, bannedWords>>
              ELSE /\ last'.result = IF Idle(d) THEN "No game is currently running"
                                     ELSE "Not a game channel"
                   /\ UNCHANGED db]_vars

\* C7 witness: a game that holds a Turn has just been ended.
C7_Witness ==
    /\ last.op = "end"
    /\ last.result = "ok"
    /\ \E i \in 1..Len(turns) : turns[i].game = last.game
    /\ Idle(last.channel)

\* C8 (banned words): no persisted Turn has a word of the BannedWords table.
C8_NoBannedTurn == \A i \in 1..Len(turns) : turns[i].word \notin bannedWords

\* C9 (rejection writes nothing): a step of a handler that has collected a
\* reject reason writes no Turn and creates no User.
C9_RejectWritesNothing ==
    [][\A i \in 1..Len(msgs') :
          (Steps(i) /\ (msgs'[i].reply_messages # <<>> \/ msgs'[i].replies # <<>>))
              => (turns' = turns /\ users' = users)]_vars

\* C9 witness: a candidate of an author the bot has no record of was
\* rejected, and there is still no User.
C9_Witness ==
    /\ users = {}
    /\ user_cache = {}
    /\ \E i \in 1..Len(msgs) : msgs[i].outcome = "rejected"

\* The lines of a reply.
Lines(reply) == {reply[k] : k \in 1..Len(reply)}

\* The chain check fails for word against the Turns T of the game.
ChainFails(T, game, word) ==
    \E i \in 1..Len(T) :
        /\ T[i].game = game
        /\ T[i].state \in {MESSAGE_STATE_UNKNOWN, MESSAGE_STATE_OK}
        /\ \A j \in 1..Len(T) :
               (T[j].game = game
                /\ T[j].state \in {MESSAGE_STATE_UNKNOWN, MESSAGE_STATE_OK})
                   => T[j].timestamp <= T[i].timestamp
        /\ word[1] # T[i].word[Len(T[i].word)]

\* The repeat check fails for word against the Turns T of the game.
RepeatFails(T, game, word) ==
    \E i \in 1..Len(T) : T[i].game = game /\ T[i].word = word

\* C10 (no short-circuit): a candidate gets one reply, with one line for each
\* check that failed (previously rejected; chain, against the Turns the chain
\* check read; repeat), or it gets no reply and its Turn is written while no
\* check fails; a handler that has returned sent a reply exactly when it
\* wrote no Turn.
C10_ReplyPerFailedCheck ==
    /\ [](\A i \in 1..Len(msgs) :
             msgs[i].outcome \in {"rejected", "accepted"}
                 => /\ Len(msgs[i].replies) <= 1
                    /\ (msgs[i].replies # <<>>) <=> (msgs[i].turn = 0)
                    /\ (msgs[i].turn = 0) <=> (msgs[i].outcome = "rejected"))
    /\ [][\A i \in 1..Len(msgs') :
             LET m == msgs'[i]
                 game == m.channel_rec.current_game
             IN  /\ (Steps(i) /\ m.pc = "reply")
                        => /\ m.replies = <<m.reply_messages>>
                           /\ Len(m.reply_messages) = Cardinality(Lines(m.reply_messages))
                           /\ (REPLY_REJECTED \in Lines(m.reply_messages))
                                  <=> (words'[m.word_rec] = WORD_SOURCE_REJECTED)
                           /\ (REPLY_CHAIN \in Lines(m.reply_messages))
                                  <=> ChainFails(SubSeq(turns', 1, m.chain_at), game, m.word)
                           /\ (REPLY_REPEAT \in Lines(m.reply_messages))
                                  <=> RepeatFails(turns', game, m.word_rec)
                 /\ (Steps(i) /\ m.outcome = "accepted")
                        => LET t == turns'[m.turn]
                           IN  /\ turns' = Append(turns, t)
                               /\ words'[t.word] # WORD_SOURCE_REJECTED
                               /\ ~ChainFails(turns, t.game, t.word)
                               /\ ~RepeatFails(turns, t.game, t.word)]_vars

\* C10 witness: a candidate that failed two checks got one reply of two lines.
C10_Witness ==
    \E i \in 1..Len(msgs) :
        /\ msgs[i].outcome = "rejected"
        /\ Len(msgs[i].replies) = 1
        /\ Len(msgs[i].replies[1]) = 2

\* C11 (one event at a time): while the handling of a message is suspended,
\* the next step of the bot is a step of that handling, so no other message
\* and no operation is handled before it has returned.
C11_OneEventAtATime == [][\A i \in InFlight : Steps(i)]_vars

\* C12 (idempotent registration): channel_add of a channel that has a row
\* leaves it with that one row, of the same id, game_running and
\* current_game, and with the name it was added with; Games and Turns are
\* untouched.
C12_IdempotentAdd ==
    [][\A k \in DOMAIN ChannelIds, n \in DOMAIN ChannelNames :
          LET d == ChannelIds[k]
          IN  (channel_add(d, ChannelNames[n]) /\ HasChannel(d))
                  => /\ Cardinality({r \in channels' : r.discord_id = d}) = 1
                     /\ Cardinality(channels') = Cardinality(channels)
                     /\ \E r \in channels' :
                           /\ r.discord_id = d
                           /\ r.id = ChannelRow(d).id
                           /\ r.game_running = ChannelRow(d).game_running
                           /\ r.current_game = ChannelRow(d).current_game
                           /\ r.name = ChannelNames[n]
                     /\ \A r \in channels : r.discord_id # d => r \in channels'
                     /\ games' = games
                     /\ turns' = turns]_vars

\* C12 witness: a channel was added again, under its new name, while its
\* game was running.
C12_Witness ==
    \E d \in DOMAIN channel_cache :
        /\ last = Outcome("add", d, "ok", NoGame)
        /\ Running(d)
        /\ ChannelRow(d).name = ChannelNames[2]

\* C13 (a Turn belongs to the current Game of its channel): every Turn
\* written with a Game has the channel of that Game, and at the time it is
\* written the stored row of that channel names the Game as its
\* current_game.
C13_TurnInCurrentGame ==
    [][\A k \in 1..Len(turns') :
          (k > Len(turns) /\ turns'[k].game # NoGame)
              => /\ turns'[k].channel = games[turns'[k].game].channel
                 /\ \E r \in channels :
                       /\ r.id = turns'[k].channel
                       /\ r.current_game = turns'[k].game]_vars

\* The handling of message i, a message of channel d, takes the step.
Handles(d, i) ==
    \/ /\ i = Len(msgs) + 1
       /\ \E a \in DOMAIN UserIds, c \in Contents : on_message(d, UserIds[a], c)
    \/ /\ i \in InFlight
       /\ msgs[i].channel = d
       /\ resume(i)

\* The handling of message i runs its chain check in the step: it gets past
\* the gate and the parse, or it resumes from the await before the check.
ChainChecked(d, i) ==
    /\ Handles(d, i)
    /\ i \in InFlight => msgs[i].pc = "thinking"
    /\ msgs'[i].outcome \notin {"no_game", "no_word"}
    /\ msgs'[i].pc \notin {"thumb_down", "thinking"}

\* C14 (games are independent): a candidate's chain or repeat check fails
\* only against a Turn of the Game it is played in; a candidate whose word is
\* not rejected and whose Game has no Turn yet is accepted, whatever Turns
\* other Games hold; and handling a message of channel d changes no channel
\* row, no Game, no earlier Turn, and adds no Turn to another channel's row.
C14_GamesIndependent ==
    /\ [](\A i \in InFlight :
             LET m == msgs[i]
                 game == m.channel_rec.current_game
             IN  /\ (REPLY_CHAIN \in Lines(m.reply_messages))
                        => \E k \in 1..Len(turns) : turns[k].game = game
                 /\ (REPLY_REPEAT \in Lines(m.reply_messages))
                        => \E k \in 1..Len(turns) :
                               /\ turns[k].game = game
                               /\ turns[k].word = m.word_rec)
    /\ [][\A n \in DOMAIN ChannelIds, i \in 1..MaxMsgs :
             LET d == ChannelIds[n]
                 game == IF i \in InFlight
                         THEN msgs[i].channel_rec.current_game
                         ELSE channel_get(d).current_game
             IN  /\ Handles(d, i)
                        => /\ channels' = channels
                           /\ games' = games
                           /\ Len(turns') >= Len(turns)
                           /\ \A k \in 1..Len(turns) : turns'[k] = turns[k]
                           /\ \A k \in (Len(turns) + 1)..Len(turns') :
                                  \A r \in channels :
                                      r.id = turns'[k].channel
                                          => r.discord_id = d
                 /\ (/\ ChainChecked(d, i)
                     /\ \A k \in 1..Len(turns) : turns[k].game # game)
                        => /\ msgs'[i].outcome = "accepted"
                           /\ turns'[msgs'[i].turn].game = game]_vars

\* The tokens of a text: its pieces between delimiters, in lower case.
Tokens(content) ==
    LET elements == re_split(lower(content), <<>>, <<>>)
    IN  SelectSeq(elements,
                  LAMBDA e : e # <<>> /\ ~(Len(e) = 1 /\ e[1] \in Delimiters))

\* The text is one token, and the token has letters only.
OneAlphabeticToken(content) ==
    /\ Len(Tokens(content)) = 1
    /\ \A k \in 1..Len(Tokens(content)[1]) : Tokens(content)[1][k] \in Letters

\* C15 (single-word candidates): a message whose text is not one purely
\* alphabetic token gets no reaction and no reply, and no Turn or Word is
\* written for it.
C15_SingleWordOnly ==
    [][\A n \in DOMAIN ChannelIds, a \in DOMAIN UserIds, c \in ParseContents :
          (on_message(ChannelIds[n], UserIds[a], c) /\ ~OneAlphabeticToken(c))
              => /\ msgs'[Len(msgs')].reactions = <<>>
                 /\ msgs'[Len(msgs')].replies = <<>>
                 /\ msgs'[Len(msgs')].pc = "done"
                 /\ turns' = turns
                 /\ words' = words]_vars

\* C16 (unregister cascades): channel_remove returns true exactly when the
\* channel had a row; after it the channel has no row, and no Game or Turn
\* refers to the removed row; at all times every Game and every Turn refers
\* to a Channels row that exists.
C16_UnregisterCascades ==
    /\ [](/\ \A g \in DOMAIN games :
                \E r \in channels : r.id = games[g].channel
          /\ \A k \in 1..Len(turns) :
                \E r \in channels : r.id = turns[k].channel)
    /\ [][\A n \in DOMAIN ChannelIds :
             LET d == ChannelIds[n]
             IN  channel_remove(d)
                     => /\ (last'.result = "true") <=> HasChannel(d)
                        /\ \A r \in channels' : r.discord_id # d
                        /\ \A r \in ChannelRows(d) :
                              /\ \A g \in DOMAIN games' :
                                    games'[g].channel # r.id
                              /\ \A k \in 1..Len(turns') :
                                    turns'[k].channel # r.id]_vars

\* C17 (the end command ends the game): an end command in a channel whose
\* stored row is running leaves the row idle and sends "game ended.", as a
\* start command in a channel whose stored row is idle leaves it running and
\* sends "game started."; neither sends an internal error.
C17_EndCommand ==
    [][\A n \in DOMAIN ChannelIds, history \in Histories :
          LET d == ChannelIds[n]
          IN  /\ (command_execute(d, "end", history) /\ Running(d))
                     => /\ \E r \in channels' :
                              r.discord_id = d /\ ~r.game_running
                        /\ Sent(last') = <<"game ended.">>
              /\ (command_execute(d, "start", history) /\ Idle(d))
                     => /\ \E r \in channels' :
                              r.discord_id = d /\ r.game_running
                        /\ Sent(last') = <<"game started.">>]_vars

\* The messages of a history that are one purely alphabetic token.
SingleWords(history) == SelectSeq(history, OneAlphabeticToken)

\* C20 (sync): channel_sync of a registered channel completes, appends one
\* Turn without a Game for each single-word message of the history, in
\* order, and nothing else, and leaves the channel rows as they were.
C20_SyncPersistsHistory ==
    [][\A n \in DOMAIN ChannelIds, history \in Histories :
          LET d == ChannelIds[n]
              singles == SingleWords(history)
          IN  (command_execute(d, "sync", history) /\ HasChannel(d))
                  => /\ Sent(last') = <<"Syncronized">>
                     /\ Len(turns') = Len(turns) + Len(singles)
                     /\ \A k \in 1..Len(turns) : turns'[k] = turns[k]
                     /\ \A k \in 1..Len(singles) :
                           LET t == turns'[Len(turns) + k]
                           IN  /\ t.game = NoGame
                               /\ t.content = singles[k]
                               /\ t.channel = ChannelRow(d).id
                     /\ channels' = channels]_vars

\* C18 (loading is idempotent): do_load completes without error whatever
\* words the table holds already; it leaves the rows there were as they
\* were and adds one row of source LIST for every other word of the file.
C18_LoadIdempotent ==
    [][\A file \in Files :
          do_load(file)
              => /\ last'.result = "ok"
                 /\ DOMAIN words' = DOMAIN words
                                    \cup {strip(file[k]) : k \in 1..Len(file)}
                 /\ \A w \in DOMAIN words : words'[w] = words[w]
                 /\ \A w \in DOMAIN words' \ DOMAIN words :
                       words'[w] = WORD_SOURCE_LIST]_vars

\* C19 (a word's source is set once): no step changes the source of a Words
\* row or removes the row; a row gets source GAME only in a handler step;
\* and a Turn has state UNKNOWN when its word has source GAME, state OK
\* otherwise.
C19_SourceSetOnce ==
    /\ [][/\ \A w \in DOMAIN words :
                w \in DOMAIN words' /\ words'[w] = words[w]
          /\ \A w \in DOMAIN words' \ DOMAIN words :
                words'[w] = WORD_SOURCE_GAME <=> Len(msgs') > Len(msgs)]_vars
    /\ [](\A k \in 1..Len(turns) :
             /\ turns[k].state \in {MESSAGE_STATE_UNKNOWN, MESSAGE_STATE_OK}
             /\ (turns[k].state = MESSAGE_STATE_UNKNOWN)
                    <=> (words[turns[k].word] = WORD_SOURCE_GAME))

\* C19 witness: a word file was loaded on top of a word that game play had
\* created, and the word is the GAME word it was, with its Turn of state
\* UNKNOWN next to a Turn of state OK.
C19_Witness ==
    /\ last = Outcome("load", "", "IntegrityError", NoGame)
    /\ \E j, k \in 1..Len(turns) :
          /\ turns[j].state = MESSAGE_STATE_UNKNOWN
          /\ words[turns[j].word] = WORD_SOURCE_GAME
          /\ turns[k].state = MESSAGE_STATE_OK
          /\ words[turns[k].word] = WORD_SOURCE_LIST

\* C21 (channel cache coherence): an entry of the channel cache is None
\* exactly when the channel has no row, and otherwise has the game_running
\* and the current_game of the stored row.
C21_CacheCoherent ==
    \A d \in DOMAIN channel_cache :
        /\ (channel_cache[d] = None) <=> ~HasChannel(d)
        /\ HasChannel(d)
               => /\ channel_cache[d].game_running = ChannelRow(d).game_running
                  /\ channel_cache[d].current_game = ChannelRow(d).current_game

\* C22 (no yield on the accept path): a handler that is suspended at an await
\* after its chain query has found a reason to reject and never writes a
\* Turn; so a candidate is accepted in the very step that runs its chain
\* query and its repeat query, its Turn is the only row written in that step
\* and is appended to the Turns the queries read, and no two accepted
\* candidates were validated against the same Turns.
C22_AcceptPathAtomic ==
    /\ [](\A i \in InFlight :
             msgs[i].pc \in {"nay", "recycle", "reply"} => msgs[i].reject_word)
    /\ [](\A i, j \in 1..Len(msgs) :
             (i # j /\ msgs[i].turn # 0 /\ msgs[j].turn # 0)
                 => msgs[i].turn # msgs[j].turn)
    /\ [][\A i \in 1..Len(msgs') :
             (Steps(i) /\ msgs'[i].outcome = "accepted")
                 => /\ i \in InFlight => msgs[i].pc = "thinking"
                    /\ msgs'[i].turn = Len(turns) + 1
                    /\ Len(turns') = Len(turns) + 1
                    /\ \A k \in 1..Len(turns) : turns'[k] = turns[k]
                    /\ \A j \in InFlight \ {i} : msgs'[j] = msgs[j]]_vars

\* C22 witness: two handlers of one channel interleaved and both candidates
\* were accepted, the later message first.
C22_Witness ==
    \E i, j \in 1..Len(msgs) :
        /\ i < j
        /\ msgs[i].outcome = "accepted"
        /\ msgs[j].outcome = "accepted"
        /\ msgs[j].turn < msgs[i].turn
        /\ turns[msgs[i].turn].game = turns[msgs[j].turn].game
====
